---- MODULE Spec2Model ----
(***************************************************************************)
(* The Deterministic Policy Gradient actor loss, trfl/dpg_ops.py.          *)
(*                                                                         *)
(* dpg(q_max, a_max, dqda_clipping, clip_norm, name) is modelled as the    *)
(* sequence of steps of its body, run by one or by several callers.        *)
(* Numbers are exact rationals <<numerator, denominator>>.  A tensor is a  *)
(* function from the batch rows to a row value; every tensor that is a     *)
(* node of the graph of a_max carries, beside its value `val`, the         *)
(* derivative `jac` of that value with respect to the row of a_max, which  *)
(* is what a later tf.gradients(..., [a_max]) reads.                       *)
(***************************************************************************)
EXTENDS Integers, Sequences, FiniteSets, TLC

\* Largest absolute value of a component of a_max.
MaxAct == 1
\* Largest integer clipping magnitude dqda_clipping.
MaxClip == 2
\* Largest number of name scopes opened in the default graph.
MaxScopes == 2

\* a_max has shape [B, action_dimension]; q_max has shape [B].
Batch == {1, 2}
ActionDims == {1, 2}
\* The callers of dpg.
Threads == {1, 2}

\* Python's None: the empty tuple, equal to no number, tensor or record.
None == <<>>

-----------------------------------------------------------------------------
(* Exact arithmetic. *)

Abs(n) == IF n < 0 THEN -n ELSE n

RECURSIVE GCD(_, _)
GCD(m, n) == IF n = 0 THEN m ELSE GCD(n, m % n)

\* The rational n/d in lowest terms, with a positive denominator.
Frac(n, d) ==
  LET g == GCD(Abs(n), Abs(d))
      s == IF d < 0 THEN -1 ELSE 1
  IN  <<(s * n) \div g, (s * d) \div g>>

R(n) == <<n, 1>>
RAdd(x, y) == Frac(x[1] * y[2] + y[1] * x[2], x[2] * y[2])
RSub(x, y) == Frac(x[1] * y[2] - y[1] * x[2], x[2] * y[2])
RMul(x, y) == Frac(x[1] * y[1], x[2] * y[2])
RDiv(x, y) == Frac(x[1] * y[2], x[2] * y[1])
RNeg(x) == <<-x[1], x[2]>>
RLe(x, y) == x[1] * y[2] <= y[1] * x[2]
RLt(x, y) == x[1] * y[2] < y[1] * x[2]
RMax(x, y) == IF RLe(x, y) THEN y ELSE x
RMin(x, y) == IF RLe(x, y) THEN x ELSE y

IsSquareInt(n) == \E r \in 0..n : r * r = n
ISqrt(n) == CHOOSE r \in 0..n : r * r = n
\* A non-negative rational in lowest terms is a square exactly when both of
\* its terms are.
IsSquare(x) == IsSquareInt(x[1]) /\ IsSquareInt(x[2])
RSqrt(x) == <<ISqrt(x[1]), ISqrt(x[2])>>

RECURSIVE SumOver(_, _)
SumOver(f, S) ==
  IF S = {} THEN R(0)
  ELSE LET i == CHOOSE j \in S : TRUE
       IN  RAdd(f[i], SumOver(f, S \ {i}))

\* Vectors over the action dimension, and matrices of such vectors.
ZeroVec == [i \in ActionDims |-> R(0)]
ZeroMat == [i \in ActionDims |-> ZeroVec]
IdMat == [i \in ActionDims |-> [j \in ActionDims |-> IF i = j THEN R(1) ELSE R(0)]]
VAdd(u, v) == [i \in ActionDims |-> RAdd(u[i], v[i])]
VSub(u, v) == [i \in ActionDims |-> RSub(u[i], v[i])]
VScale(k, v) == [i \in ActionDims |-> RMul(k, v[i])]
VDot(u, v) == SumOver([i \in ActionDims |-> RMul(u[i], v[i])], ActionDims)
MAdd(m, n) == [i \in ActionDims |-> VAdd(m[i], n[i])]
MSub(m, n) == [i \in ActionDims |-> VSub(m[i], n[i])]
MScale(k, m) == [i \in ActionDims |-> VScale(k, m[i])]
\* (m . n)[i][j] = sum_k m[i][k] * n[k][j]
MMul(m, n) ==
  [i \in ActionDims |-> [j \in ActionDims |->
     SumOver([k \in ActionDims |-> RMul(m[i][k], n[k][j])], ActionDims)]]

-----------------------------------------------------------------------------
(* The caller's graph: how q_max was computed from a_max, row by row.      *)
(* dpg receives q_max and a_max as nodes of this graph.                    *)

Const(c) == [op |-> "const", c |-> c]
NegSqNorm == [op |-> "neg_sq_norm"]
Dot(w) == [op |-> "dot", w |-> w]
StopGradient(x) == [op |-> "stop_gradient", x |-> x]
Add(l, r) == [op |-> "add", l |-> l, r |-> r]

\* The Q networks of the model: constant, -||a||^2, linear, detached, a sum
\* over two paths from a_max, a sum with one path detached, a sum with no
\* path left, and a_max fed in twice.
QNets ==
  { Const(3),
    NegSqNorm,
    Dot(<<3, 4>>),
    StopGradient(NegSqNorm),
    Add(NegSqNorm, Dot(<<1, 2>>)),
    Add(NegSqNorm, StopGradient(Dot(<<1, 2>>))),
    Add(Const(1), StopGradient(NegSqNorm)),
    Add(NegSqNorm, NegSqNorm) }

Weights(e) == [i \in ActionDims |-> R(e.w[i])]

\* The value of the network e at the row a.
RECURSIVE QValue(_, _)
QValue(e, a) ==
  CASE e.op = "const" -> R(e.c)
    [] e.op = "neg_sq_norm" -> RNeg(VDot(a, a))
    [] e.op = "dot" -> VDot(Weights(e), a)
    [] e.op = "stop_gradient" -> QValue(e.x, a)
    [] e.op = "add" -> RAdd(QValue(e.l, a), QValue(e.r, a))

\* Reverse-mode differentiation of e with respect to the row a: None when no
\* path leads from a_max to e, else the sum of the contributions of the paths.
RECURSIVE Backprop(_, _)
\* Faulty variant: the contributions of the paths are not summed, the first is kept.
BackpropFirstPath(e, a) ==
  CASE e.op = "const" -> None
    [] e.op = "neg_sq_norm" -> VScale(R(-2), a)
    [] e.op = "dot" -> Weights(e)
    [] e.op = "stop_gradient" -> None
    [] e.op = "add" ->
         LET gl == Backprop(e.l, a)
         IN  IF gl = None THEN Backprop(e.r, a) ELSE gl

Backprop(e, a) ==
  CASE e.op = "const" -> None
    [] e.op = "neg_sq_norm" -> VScale(R(-2), a)
    [] e.op = "dot" -> Weights(e)
    [] e.op = "stop_gradient" -> None
    [] e.op = "add" ->
         LET gl == Backprop(e.l, a)
             gr == Backprop(e.r, a)
         IN  IF gl = None THEN gr
             ELSE IF gr = None THEN gl
             ELSE VAdd(gl, gr)

\* The derivative of Backprop(e, a) with respect to a (zero where it is None).
RECURSIVE BackpropJac(_, _)
BackpropJac(e, a) ==
  CASE e.op = "const" -> ZeroMat
    [] e.op = "neg_sq_norm" -> MScale(R(-2), IdMat)
    [] e.op = "dot" -> ZeroMat
    [] e.op = "stop_gradient" -> ZeroMat
    [] e.op = "add" -> MAdd(BackpropJac(e.l, a), BackpropJac(e.r, a))

\* The tensor q_max = e(a_max), shape [B].
QTensor(e, a) == [graph |-> e, val |-> [b \in Batch |-> QValue(e, a[b])]]

-----------------------------------------------------------------------------
(* The TensorFlow operations dpg calls.  A node of the graph of a_max is   *)
(* [b \in Batch |-> [val |-> v, jac |-> J]], J[i][j] = d v[i] / d a[b][j]. *)

\* a_max itself as a node: its derivative with respect to itself is I.
Node(a) == [b \in Batch |-> [val |-> a[b], jac |-> IdMat]]

\* Faulty variant: an unconnected gradient comes back as zeros.
GradientsZeroIfUnconnected(q, a) ==
  [b \in Batch |->
     [val |-> IF Backprop(q.graph, a[b]) = None THEN ZeroVec
              ELSE Backprop(q.graph, a[b]),
      jac |-> BackpropJac(q.graph, a[b])]]

\* tf.gradients([q], [a])[0]: None when q does not depend on a.
Gradients(q, a) ==
  LET b0 == CHOOSE b \in Batch : TRUE
  IN  IF Backprop(q.graph, a[b0]) = None THEN None
      ELSE [b \in Batch |-> [val |-> Backprop(q.graph, a[b]),
                             jac |-> BackpropJac(q.graph, a[b])]]

\* The squared L2 norm of each row, over the last axis.
L2Sum(v) == VDot(v, v)

\* Faulty variant: the square root is missing, the sum of squares is used as norm.
ClipByNormRowNoSqrt(r, m) ==
  [val |-> [i \in ActionDims |->
              RDiv(RMul(r.val[i], m), RMax(L2Sum(r.val), m))],
   jac |-> r.jac]

\* tf.clip_by_norm(t, m, axes=-1): t * m / max(l2norm, m), row by row.
ClipByNormRow(r, m) ==
  LET n == RSqrt(L2Sum(r.val))
      d == RMax(n, m)
      \* d(t * m / max(n, m)) / dt: the maximum passes the gradient to the
      \* norm when n >= m.
      dydx == IF RLt(n, m) THEN IdMat
              ELSE [i \in ActionDims |-> [k \in ActionDims |->
                      RMul(m, RSub(IF i = k THEN RDiv(R(1), n) ELSE R(0),
                                   RDiv(RMul(r.val[i], r.val[k]),
                                        RMul(n, RMul(n, n)))))]]
  IN  [val |-> [i \in ActionDims |-> RDiv(RMul(r.val[i], m), d)],
       jac |-> MMul(dydx, r.jac)]

ClipByNorm(t, m) == [b \in Batch |-> ClipByNormRow(t[b], m)]

\* tf.clip_by_value(t, lo, hi): min(max(t, lo), hi), component by component;
\* the gradient passes where lo <= t <= hi.
ClipByValueRow(r, lo, hi) ==
  [val |-> [i \in ActionDims |-> RMin(RMax(r.val[i], lo), hi)],
   jac |-> [i \in ActionDims |->
              IF RLt(r.val[i], lo) \/ RLt(hi, r.val[i]) THEN ZeroVec
              ELSE r.jac[i]]]

ClipByValue(t, lo, hi) == [b \in Batch |-> ClipByValueRow(t[b], lo, hi)]

TfAdd(x, y) ==
  [b \in Batch |-> [val |-> VAdd(x[b].val, y[b].val),
                    jac |-> MAdd(x[b].jac, y[b].jac)]]

TfSub(x, y) ==
  [b \in Batch |-> [val |-> VSub(x[b].val, y[b].val),
                    jac |-> MSub(x[b].jac, y[b].jac)]]

\* tf.stop_gradient(x): the value of x, constant for differentiation.
TfStopGradient(x) == [b \in Batch |-> [val |-> x[b].val, jac |-> ZeroMat]]

TfSquare(x) ==
  [b \in Batch |->
     [val |-> [i \in ActionDims |-> RMul(x[b].val[i], x[b].val[i])],
      jac |-> [i \in ActionDims |->
                 VScale(RMul(R(2), x[b].val[i]), x[b].jac[i])]]]

\* tf.reduce_sum(x, axis=-1): shape [B]; jac[j] = d val / d a[b][j].
TfReduceSum(x) ==
  [b \in Batch |->
     [val |-> SumOver(x[b].val, ActionDims),
      jac |-> [j \in ActionDims |->
                 SumOver([i \in ActionDims |-> x[b].jac[i][j]], ActionDims)]]]

\* k * x for a Python number k and a tensor x of shape [B].
TfScale(k, x) ==
  [b \in Batch |-> [val |-> RMul(k, x[b].val), jac |-> VScale(k, x[b].jac)]]

-----------------------------------------------------------------------------
(* dpg, by the steps of its body. *)

VARIABLES
  pc,             \* where each caller stands in dpg
  q_max,          \* argument: the Q values, a node of the caller's graph
  a_max,          \* argument: the actions
  dqda_clipping,  \* argument: None or a number
  clip_norm,      \* argument: a boolean
  dqda,           \* local: None, or the gradient dq/da
  ret,            \* what the call returned, None before it does
  raised,         \* the exception the call raised, None when it has not
  scope,          \* the name scope the call opened
  scopes          \* the default graph: the number of name scopes opened in it

vars == <<pc, q_max, a_max, dqda_clipping, clip_norm, dqda, ret, raised,
          scope, scopes>>

\* The factor 0.5 of the loss.
Half == <<1, 2>>

\* The two ValueErrors of dpg.
NotAFunction ==
  [type |-> "ValueError", msg |-> "q_max needs to be a function of a_max"]
BadClipping(c) ==
  [type |-> "ValueError",
   msg |-> "dqda_clipping should be bigger than 0, {} found", found |-> c]

\* dqda is None: q_max does not depend on a_max.
NoGradient(g) == g = None

\* dqda_clipping <= 0
ClippingInvalid(c) == RLe(c, R(0))

\* Faulty variant: the lower bound of the clamp has lost its sign.
ClipDqdaSameBounds(g, c, norm) ==
  IF norm THEN ClipByNorm(g, c)
  ELSE ClipByValue(g, c, c)

\* The clipped gradient, for a valid dqda_clipping.
ClipDqda(g, c, norm) ==
  IF norm THEN ClipByNorm(g, c)
  ELSE ClipByValue(g, RMul(R(-1), c), c)

\* Faulty variant: the target is not detached.
TargetANoStop(g, a) == TfAdd(g, Node(a))

\* target_a = tf.stop_gradient(dqda + a_max)
TargetA(g, a) == TfStopGradient(TfAdd(g, Node(a)))

\* Faulty variant: the factor 0.5 is missing.
LossNoHalf(target_a, a) ==
  TfReduceSum(TfSquare(TfSub(target_a, Node(a))))

\* loss = 0.5 * tf.reduce_sum(tf.square(target_a - a_max), axis=-1)
Loss(target_a, a) ==
  TfScale(Half, TfReduceSum(TfSquare(TfSub(target_a, Node(a)))))

\* Faulty variant: the record exposes the gradient as it was before clipping.
DPGExtraUnclipped(q, a, g) ==
  [q_max |-> q, a_max |-> a, dqda |-> Gradients(q, a)]

DPGExtra(q, a, g) == [q_max |-> q, a_max |-> a, dqda |-> g]
LossOutput(loss, extra) == [loss |-> loss, extra |-> extra]

\* The arguments a caller may pass.
ActValues == {R(v) : v \in -MaxAct..MaxAct}
Actions == [Batch -> [ActionDims -> ActValues]]
Clippings == {None} \cup {R(k) : k \in -1..MaxClip} \cup {<<1, 2>>}
\* The arguments of the callers that run side by side.
SharedNets == {Const(3), NegSqNorm, Add(NegSqNorm, Dot(<<1, 2>>))}
SharedActions == {[b \in Batch |-> [i \in ActionDims |-> R(v)]] : v \in {-1, 1}}
SharedClippings == {None, R(0), R(1)}

\* The norm of every row that tf.clip_by_norm takes the square root of is a
\* rational number.
Representable(e, a, c, norm) ==
  LET q == QTensor(e, a)
      g == Gradients(q, a)
  IN  (norm /\ c # None /\ ~NoGradient(g) /\ ~ClippingInvalid(c))
        => \A b \in Batch : IsSquare(L2Sum(g[b].val))

Init ==
  /\ pc = [t \in Threads |-> "idle"]
  /\ q_max = [t \in Threads |-> None]
  /\ a_max = [t \in Threads |-> None]
  /\ dqda_clipping = [t \in Threads |-> None]
  /\ clip_norm = [t \in Threads |-> FALSE]
  /\ dqda = [t \in Threads |-> None]
  /\ ret = [t \in Threads |-> None]
  /\ raised = [t \in Threads |-> None]
  /\ scope = [t \in Threads |-> None]
  /\ scopes = 0

\* dpg is called; tf.name_scope(name, values=[q_max, a_max]) opens a scope
\* of the default graph.
Call(t, nets, actions, clippings) ==
  /\ pc[t] = "idle"
  /\ scopes < MaxScopes
  /\ \E e \in nets, a \in actions, c \in clippings, norm \in BOOLEAN :
       /\ Representable(e, a, c, norm)
       /\ q_max' = [q_max EXCEPT ![t] = QTensor(e, a)]
       /\ a_max' = [a_max EXCEPT ![t] = a]
       /\ dqda_clipping' = [dqda_clipping EXCEPT ![t] = c]
       /\ clip_norm' = [clip_norm EXCEPT ![t] = norm]
  /\ scope' = [scope EXCEPT ![t] = scopes]
  /\ scopes' = scopes + 1
  /\ pc' = [pc EXCEPT ![t] = "gradients"]
  /\ UNCHANGED <<dqda, ret, raised>>

\* Faulty variant: the gradient is kept in a place all calls share, and a call takes
\* the one another call has left there.
ComputeGradientsShared(t) ==
  /\ pc[t] = "gradients"
  /\ dqda' = [dqda EXCEPT ![t] =
                IF \E u \in Threads \ {t} : dqda[u] # None
                THEN dqda[CHOOSE u \in Threads \ {t} : dqda[u] # None]
                ELSE Gradients(q_max[t], a_max[t])]
  /\ pc' = [pc EXCEPT ![t] = "check_dependency"]
  /\ UNCHANGED <<q_max, a_max, dqda_clipping, clip_norm, ret, raised,
                 scope, scopes>>

\* dqda = tf.gradients([q_max], [a_max])[0]
ComputeGradients(t) ==
  /\ pc[t] = "gradients"
  /\ dqda' = [dqda EXCEPT ![t] = Gradients(q_max[t], a_max[t])]
  /\ pc' = [pc EXCEPT ![t] = "check_dependency"]
  /\ UNCHANGED <<q_max, a_max, dqda_clipping, clip_norm, ret, raised,
                 scope, scopes>>

\* Faulty variant: dqda_clipping is checked before the dependency.
CheckClippingFirst(t) ==
  /\ pc[t] = "check_dependency"
  /\ IF dqda_clipping[t] # None /\ ClippingInvalid(dqda_clipping[t])
     THEN /\ raised' = [raised EXCEPT ![t] = BadClipping(dqda_clipping[t])]
          /\ pc' = [pc EXCEPT ![t] = "raised"]
     ELSE IF NoGradient(dqda[t])
     THEN /\ raised' = [raised EXCEPT ![t] = NotAFunction]
          /\ pc' = [pc EXCEPT ![t] = "raised"]
     ELSE /\ pc' = [pc EXCEPT ![t] = "clipping"]
          /\ UNCHANGED raised
  /\ UNCHANGED <<q_max, a_max, dqda_clipping, clip_norm, dqda, ret,
                 scope, scopes>>

\* if dqda is None: raise ValueError
CheckDependency(t) ==
  /\ pc[t] = "check_dependency"
  /\ IF NoGradient(dqda[t])
     THEN /\ raised' = [raised EXCEPT ![t] = NotAFunction]
          /\ pc' = [pc EXCEPT ![t] = "raised"]
     ELSE /\ pc' = [pc EXCEPT ![t] = "clipping"]
          /\ UNCHANGED raised
  /\ UNCHANGED <<q_max, a_max, dqda_clipping, clip_norm, dqda, ret,
                 scope, scopes>>

\* Faulty variant: dqda_clipping is checked on the clip_norm branch only.
ClippingCheckedForNormOnly(t) ==
  /\ pc[t] = "clipping"
  /\ IF dqda_clipping[t] = None
     THEN /\ pc' = [pc EXCEPT ![t] = "loss"]
          /\ UNCHANGED <<dqda, raised>>
     ELSE IF clip_norm[t] /\ ClippingInvalid(dqda_clipping[t])
     THEN /\ raised' = [raised EXCEPT ![t] = BadClipping(dqda_clipping[t])]
          /\ pc' = [pc EXCEPT ![t] = "raised"]
          /\ UNCHANGED dqda
     ELSE /\ dqda' = [dqda EXCEPT ![t] =
                        ClipDqda(dqda[t], dqda_clipping[t], clip_norm[t])]
          /\ pc' = [pc EXCEPT ![t] = "loss"]
          /\ UNCHANGED raised
  /\ UNCHANGED <<q_max, a_max, dqda_clipping, clip_norm, ret, scope, scopes>>

\* if dqda_clipping is not None: check it, then clip dqda
Clipping(t) ==
  /\ pc[t] = "clipping"
  /\ IF dqda_clipping[t] = None
     THEN /\ pc' = [pc EXCEPT ![t] = "loss"]
          /\ UNCHANGED <<dqda, raised>>
     ELSE IF ClippingInvalid(dqda_clipping[t])
     THEN /\ raised' = [raised EXCEPT ![t] = BadClipping(dqda_clipping[t])]
          /\ pc' = [pc EXCEPT ![t] = "raised"]
          /\ UNCHANGED dqda
     ELSE /\ dqda' = [dqda EXCEPT ![t] =
                        ClipDqda(dqda[t], dqda_clipping[t], clip_norm[t])]
          /\ pc' = [pc EXCEPT ![t] = "loss"]
          /\ UNCHANGED raised
  /\ UNCHANGED <<q_max, a_max, dqda_clipping, clip_norm, ret, scope, scopes>>

\* target_a, loss, and the return of LossOutput(loss, DPGExtra(...))
ComputeLoss(t) ==
  /\ pc[t] = "loss"
  /\ LET target_a == TargetA(dqda[t], a_max[t])
         loss == Loss(target_a, a_max[t])
     IN  ret' = [ret EXCEPT ![t] =
                   LossOutput(loss, DPGExtra(q_max[t], a_max[t], dqda[t]))]
  /\ pc' = [pc EXCEPT ![t] = "returned"]
  /\ UNCHANGED <<q_max, a_max, dqda_clipping, clip_norm, dqda, raised,
                 scope, scopes>>

\* The caller is done with the result or the exception; the frame of the
\* call is gone, the scope stays in the graph.
Finish(t) ==
  /\ pc[t] \in {"returned", "raised"}
  /\ pc' = [pc EXCEPT ![t] = "idle"]
  /\ q_max' = [q_max EXCEPT ![t] = None]
  /\ a_max' = [a_max EXCEPT ![t] = None]
  /\ dqda_clipping' = [dqda_clipping EXCEPT ![t] = None]
  /\ clip_norm' = [clip_norm EXCEPT ![t] = FALSE]
  /\ dqda' = [dqda EXCEPT ![t] = None]
  /\ ret' = [ret EXCEPT ![t] = None]
  /\ raised' = [raised EXCEPT ![t] = None]
  /\ scope' = [scope EXCEPT ![t] = None]
  /\ UNCHANGED scopes

\* One caller, one call, any arguments.
Next ==
  \/ Call(1, QNets, Actions, Clippings)
  \/ ComputeGradients(1)
  \/ CheckDependency(1)
  \/ Clipping(1)
  \/ ComputeLoss(1)

Spec == Init /\ [][Next]_vars

\* Several callers, call after call, side by side.
NextShared ==
  \E t \in Threads :
    \/ Call(t, SharedNets, SharedActions, SharedClippings)
    \/ ComputeGradients(t)
    \/ CheckDependency(t)
    \/ Clipping(t)
    \/ ComputeLoss(t)
    \/ Finish(t)

SpecShared == Init /\ [][NextShared]_vars

\* dpg run alone, from its arguments: what it returns and what it raises.
Dpg(q, a, c, norm) ==
  LET g == Gradients(q, a)
  IN  IF NoGradient(g) THEN [ret |-> None, raised |-> NotAFunction]
      ELSE IF c # None /\ ClippingInvalid(c)
      THEN [ret |-> None, raised |-> BadClipping(c)]
      ELSE LET gc == IF c = None THEN g ELSE ClipDqda(g, c, norm)
           IN  [ret |-> LossOutput(Loss(TargetA(gc, a), a), DPGExtra(q, a, gc)),
                raised |-> None]

-----------------------------------------------------------------------------
(* Properties. *)

Returned(t) == pc[t] = "returned"
Raised(t) == pc[t] = "raised"

\* Some path leads from a_max to e that no stop_gradient cuts.
RECURSIVE HasPath(_)
HasPath(e) ==
  CASE e.op = "const" -> FALSE
    [] e.op = "neg_sq_norm" -> TRUE
    [] e.op = "dot" -> TRUE
    [] e.op = "stop_gradient" -> FALSE
    [] e.op = "add" -> HasPath(e.l) \/ HasPath(e.r)

\* e is a function of a_max alone: no constant-folded part.
RECURSIVE StopFree(_)
StopFree(e) ==
  CASE e.op = "stop_gradient" -> FALSE
    [] e.op = "add" -> StopFree(e.l) /\ StopFree(e.r)
    [] OTHER -> TRUE

\* The gradient tf.gradients gave the call, before any clipping.
Unclipped(t) == Gradients(q_max[t], a_max[t])

Clipped(t) == dqda_clipping[t] # None /\ RLt(R(0), dqda_clipping[t])

\* C1: whenever dpg returns, loss[b] = 0.5 * ||dqda[b]||^2 for every row b,
\* dqda being the (possibly clipped) gradient of the returned record.
LossIsHalfSquaredNorm ==
  \A t \in Threads :
    Returned(t) =>
      \A b \in Batch :
        ret[t].loss[b].val = RMul(Half, L2Sum(ret[t].extra.dqda[b].val))

\* A call returned a non-zero loss after norm clipping changed the gradient.
LossIsHalfSquaredNormWitness ==
  \E t \in Threads :
    /\ Returned(t) /\ Clipped(t) /\ clip_norm[t]
    /\ ret[t].extra.dqda # Unclipped(t)
    /\ \E b \in Batch : RLt(R(0), ret[t].loss[b].val)

\* C2: when q_max does not depend on a_max the call raises the "needs to be
\* a function" error and returns nothing; it never goes on to a loss.
NoDependencyRaises ==
  \A t \in Threads :
    (pc[t] # "idle" /\ ~HasPath(q_max[t].graph)) =>
      /\ pc[t] \in {"gradients", "check_dependency", "raised"}
      /\ ret[t] = None
      /\ Raised(t) => raised[t] = NotAFunction

\* A call on a detached q_max has raised.
NoDependencyRaisesWitness ==
  \E t \in Threads :
    /\ Raised(t)
    /\ q_max[t].graph = StopGradient(NegSqNorm)
    /\ raised[t] = NotAFunction

\* C3 as claimed: every call with dqda_clipping <= 0 raises the clipping
\* error.
NonPositiveClippingAlwaysBadClipping ==
  \A t \in Threads :
    (pc[t] \in {"returned", "raised"}
       /\ dqda_clipping[t] # None /\ RLe(dqda_clipping[t], R(0))) =>
      /\ ret[t] = None
      /\ raised[t] = BadClipping(dqda_clipping[t])

\* C3, amended: a call with dqda_clipping <= 0 never computes a loss, in
\* either clipping mode; it raises the clipping error when q_max depends on
\* a_max and the dependency error when it does not.
NonPositiveClippingRaises ==
  \A t \in Threads :
    (pc[t] # "idle" /\ dqda_clipping[t] # None
       /\ RLe(dqda_clipping[t], R(0))) =>
      /\ pc[t] \notin {"loss", "returned"}
      /\ ret[t] = None
      /\ Raised(t) =>
           raised[t] = IF HasPath(q_max[t].graph)
                       THEN BadClipping(dqda_clipping[t])
                       ELSE NotAFunction

\* A call with dqda_clipping = 0 and component-wise clipping raised the
\* clipping error.
NonPositiveClippingRaisesWitness ==
  \E t \in Threads :
    /\ Raised(t) /\ ~clip_norm[t]
    /\ dqda_clipping[t] = R(0)
    /\ raised[t] = BadClipping(R(0))

Clamp(g, m) == IF RLt(g, RNeg(m)) THEN RNeg(m) ELSE IF RLt(m, g) THEN m ELSE g

\* C4: with dqda_clipping = m > 0 and clip_norm false every component of the
\* returned gradient is the clamp into [-m, m] of the unclipped component;
\* for q = -||a||^2, a = [1, 1], m = 1 the gradient is [-1, -1], the loss 1.
ComponentClipIsClamp ==
  \A t \in Threads :
    (Returned(t) /\ Clipped(t) /\ ~clip_norm[t]) =>
      LET m == dqda_clipping[t]
          g == Unclipped(t)
          out == ret[t].extra.dqda
      IN  \A b \in Batch :
            /\ \A i \in ActionDims :
                 /\ RLe(RNeg(m), out[b].val[i]) /\ RLe(out[b].val[i], m)
                 /\ out[b].val[i] = Clamp(g[b].val[i], m)
                 /\ (RLe(RNeg(m), g[b].val[i]) /\ RLe(g[b].val[i], m))
                      => out[b].val[i] = g[b].val[i]
            /\ (q_max[t].graph = NegSqNorm /\ m = R(1)
                  /\ a_max[t][b] = [i \in ActionDims |-> R(1)]) =>
                 /\ out[b].val = [i \in ActionDims |-> R(-1)]
                 /\ ret[t].loss[b].val = R(1)

\* The example of C4 returned: a row [1, 1] of a_max under q = -||a||^2,
\* clipped from [-2, -2] to [-1, -1].
ComponentClipIsClampWitness ==
  \E t \in Threads :
    /\ Returned(t) /\ ~clip_norm[t] /\ dqda_clipping[t] = R(1)
    /\ q_max[t].graph = NegSqNorm
    /\ \E b \in Batch :
         /\ a_max[t][b] = [i \in ActionDims |-> R(1)]
         /\ Unclipped(t)[b].val = [i \in ActionDims |-> R(-2)]
         /\ ret[t].extra.dqda[b].val = [i \in ActionDims |-> R(-1)]

\* C5: with dqda_clipping = m > 0 and clip_norm true every returned row has
\* norm <= m; a row of norm <= m is unchanged, a longer row is returned as a
\* positive multiple of itself, of norm m.
NormClipBoundsEachRow ==
  \A t \in Threads :
    (Returned(t) /\ Clipped(t) /\ clip_norm[t]) =>
      LET m2 == RMul(dqda_clipping[t], dqda_clipping[t])
          g == Unclipped(t)
          out == ret[t].extra.dqda
      IN  \A b \in Batch :
            /\ RLe(L2Sum(out[b].val), m2)
            /\ RLe(L2Sum(g[b].val), m2) => out[b].val = g[b].val
            /\ RLt(m2, L2Sum(g[b].val)) =>
                 /\ L2Sum(out[b].val) = m2
                 /\ RLt(R(0), VDot(out[b].val, g[b].val))
                 /\ \A i, j \in ActionDims :
                      RMul(out[b].val[i], g[b].val[j])
                        = RMul(out[b].val[j], g[b].val[i])

\* A batch returned with one row rescaled and another row, not zero, left
\* as it was.
NormClipBoundsEachRowWitness ==
  \E t \in Threads :
    /\ Returned(t) /\ Clipped(t) /\ clip_norm[t]
    /\ \E b \in Batch :
         /\ RLt(RMul(dqda_clipping[t], dqda_clipping[t]),
                L2Sum(Unclipped(t)[b].val))
         /\ \A i \in ActionDims : Unclipped(t)[b].val[i] # R(0)
    /\ \E b \in Batch :
         /\ ret[t].extra.dqda[b].val = Unclipped(t)[b].val
         /\ ret[t].extra.dqda[b].val # ZeroVec

Shift(a, i, d) == [a EXCEPT ![i] = RAdd(a[i], d)]
\* The partial derivative of the network e along dimension i at the row a;
\* the central difference is exact for the networks of the model, which are
\* polynomials of degree at most two.
Partial(e, a, i) ==
  RMul(Half, RSub(QValue(e, Shift(a, i, R(1))), QValue(e, Shift(a, i, R(-1)))))

\* C6: with no dqda_clipping and q_max = f(a_max), the returned gradient is
\* the analytic gradient of f, row by row; for f = -||a||^2 a row [1, 1]
\* gives the gradient [-2, -2] and the loss 4.
GradientIsAnalytic ==
  \A t \in Threads :
    (Returned(t) /\ dqda_clipping[t] = None /\ StopFree(q_max[t].graph)) =>
      \A b \in Batch :
        /\ \A i \in ActionDims :
             ret[t].extra.dqda[b].val[i]
               = Partial(q_max[t].graph, a_max[t][b], i)
        /\ (q_max[t].graph = NegSqNorm
              /\ a_max[t][b] = [i \in ActionDims |-> R(1)]) =>
             /\ ret[t].extra.dqda[b].val = [i \in ActionDims |-> R(-2)]
             /\ ret[t].loss[b].val = R(4)

\* An unclipped call returned for a q_max that a_max reaches along two
\* paths.
GradientIsAnalyticWitness ==
  \E t \in Threads :
    /\ Returned(t) /\ dqda_clipping[t] = None
    /\ q_max[t].graph = Add(NegSqNorm, Dot(<<1, 2>>))
    /\ \E b \in Batch : a_max[t][b] = [i \in ActionDims |-> R(1)]

\* C7: the derivative of loss[b] with respect to a_max[b] is -dqda[b], the
\* returned gradient: nothing flows back through q_max or through dqda.
LossGradientIsMinusDqda ==
  \A t \in Threads :
    Returned(t) =>
      \A b \in Batch :
        ret[t].loss[b].jac = VScale(R(-1), ret[t].extra.dqda[b].val)

\* A loss returned whose gradient dqda itself varies with a_max and is not
\* zero.
LossGradientIsMinusDqdaWitness ==
  \E t \in Threads :
    /\ Returned(t)
    /\ \E b \in Batch :
         /\ ret[t].extra.dqda[b].jac # ZeroMat
         /\ ret[t].loss[b].jac # ZeroVec

\* C8: the returned record holds the q_max and a_max the caller passed and
\* the gradient after clipping (the unclipped one when dqda_clipping is
\* None).
ExtraHoldsInputsAndClippedDqda ==
  \A t \in Threads :
    Returned(t) =>
      /\ ret[t].extra.q_max = q_max[t]
      /\ ret[t].extra.a_max = a_max[t]
      /\ ret[t].extra.q_max = QTensor(q_max[t].graph, a_max[t])
      /\ ret[t].extra.dqda =
           IF dqda_clipping[t] = None THEN Unclipped(t)
           ELSE IF clip_norm[t]
           THEN ClipByNorm(Unclipped(t), dqda_clipping[t])
           ELSE ClipByValue(Unclipped(t), RNeg(dqda_clipping[t]),
                            dqda_clipping[t])

\* A record returned whose gradient clipping has changed.
ExtraHoldsInputsAndClippedDqdaWitness ==
  \E t \in Threads :
    /\ Returned(t) /\ Clipped(t)
    /\ \E b \in Batch : ret[t].extra.dqda[b].val # Unclipped(t)[b].val

\* C9: whatever the other callers do and whatever earlier calls left in the
\* graph, the locals, the result and the exception of a call are those of
\* the same call run alone on its own arguments.
CallsAreIndependent ==
  \A t \in Threads :
    LET alone == Dpg(q_max[t], a_max[t], dqda_clipping[t], clip_norm[t])
    IN  /\ pc[t] \in {"idle", "gradients"} =>
             dqda[t] = None /\ ret[t] = None /\ raised[t] = None
        /\ pc[t] \in {"check_dependency", "clipping"} =>
             dqda[t] = Unclipped(t) /\ ret[t] = None /\ raised[t] = None
        /\ pc[t] = "loss" =>
             dqda[t] = alone.ret.extra.dqda /\ ret[t] = None
               /\ raised[t] = None
        /\ Returned(t) => ret[t] = alone.ret /\ raised[t] = None
        /\ Raised(t) => raised[t] = alone.raised /\ ret[t] = None

\* Two calls side by side, the later one returned and the earlier raised.
CallsAreIndependentWitness ==
  \E t, u \in Threads :
    /\ Returned(t) /\ Raised(u)
    /\ scope[u] < scope[t]
    /\ \E b \in Batch : RLt(R(0), ret[t].loss[b].val)

\* C10: a call on a q_max that does not depend on a_max raises the
\* dependency error even when dqda_clipping <= 0; the clipping error is
\* raised only when the gradient is defined; a call raises one of the two.
DependencyCheckedFirst ==
  \A t \in Threads :
    Raised(t) =>
      /\ ret[t] = None
      /\ raised[t] \in {NotAFunction, BadClipping(dqda_clipping[t])}
      /\ ~HasPath(q_max[t].graph) => raised[t] = NotAFunction
      /\ raised[t] # NotAFunction =>
           /\ HasPath(q_max[t].graph)
           /\ dqda[t] # None
           /\ dqda_clipping[t] # None /\ RLe(dqda_clipping[t], R(0))

\* A call with no dependency and dqda_clipping = -1 has raised.
DependencyCheckedFirstWitness ==
  \E t \in Threads :
    /\ Raised(t)
    /\ ~HasPath(q_max[t].graph)
    /\ dqda_clipping[t] = R(-1)

=============================================================================
